---- MODULE Spec2Model ----
(***************************************************************************)
(* Model of src/src/backened/app.py: the unit conversion                   *)
(* (convert_concentration), the six per-pollutant classifiers              *)
(* (get_aqi_category_no2 .. _co), the worst-case reduction                 *)
(* (get_overall_aqi_category), the mock generator (get_mock_prediction)    *)
(* and the request handler predict_single_point.                           *)
(*                                                                         *)
(* Numbers are exact rationals <<n, d>> in lowest terms with d > 0, so     *)
(* that 35.4, 1.145 and v / 1000 are represented without rounding.  The    *)
(* Python value None is the empty tuple <<>>.                              *)
(***************************************************************************)
EXTENDS Integers, Sequences, FiniteSets, TLC

VARIABLES
    call,             \* the last direct call of a module-level function
    ret,              \* what that call returned
    OPENAQ_API_KEY,   \* module global: is an OpenAQ key configured
    pc,               \* position of predict_single_point
    latitude,         \* request field
    longitude,        \* request field
    aqi_data,         \* dict: pollutant key -> canonical value
    source,           \* <<prefix, detail>> of the source string
    date_utc,         \* latest last_updated seen, or None
    found_live_data,  \* flag of the location loop
    overall,          \* [category, color]: overall_aqi_category / _color
    locsLeft,         \* locations of openaq_data['results'] not yet visited
    measLeft,         \* measurements of the current location not yet visited
    lastMeas,         \* the measurement just processed (with its conversion)
    converted,        \* history: pollutant -> last value that converted
    anyConverted,     \* history: did some measurement convert to a value
    outcome,          \* history: how the live fetch ended
    mock,             \* the dict get_mock_prediction returned, if called
    response          \* the HTTP response (status 0 before it is sent)

handlerVars == <<OPENAQ_API_KEY, pc, latitude, longitude, aqi_data, source,
                 date_utc, found_live_data, overall, locsLeft, measLeft,
                 lastMeas, converted, anyConverted, outcome, mock, response>>
vars == <<call, ret, OPENAQ_API_KEY, pc, latitude, longitude, aqi_data,
          source, date_utc, found_live_data, overall, locsLeft, measLeft,
          lastMeas, converted, anyConverted, outcome, mock, response>>

---------------------------------------------------------------------------
(* Bounds of the model.                                                    *)

MaxVal == 2      \* direct calls of convert_concentration use k/2, k <= 2*MaxVal
Grid == 1        \* classifier inputs lie within Grid hundredths of each bound
MaxBand == 2     \* reduction inputs take band bounds 1..MaxBand and one above all
MaxLocs == 2     \* locations in an OpenAQ result list
MaxMeas == 2     \* measurements of one location
MaxTime == 2     \* distinct last_updated timestamps

---------------------------------------------------------------------------
(* Exact rational arithmetic.                                              *)

None == <<>>

Abs(x) == IF x < 0 THEN -x ELSE x

RECURSIVE GCD(_, _)
GCD(a, b) == IF b = 0 THEN a ELSE GCD(b, a % b)

Rat(n, d) ==
    LET g == GCD(Abs(n), Abs(d))
        s == IF d < 0 THEN -1 ELSE 1
    IN  <<(s * n) \div g, (s * d) \div g>>

Int2Rat(n) == <<n, 1>>
RMul(a, b) == Rat(a[1] * b[1], a[2] * b[2])
RDiv(a, b) == Rat(a[1] * b[2], a[2] * b[1])
RAdd(a, b) == Rat(a[1] * b[2] + b[1] * a[2], a[2] * b[2])
RLe(a, b) == a[1] * b[2] <= b[1] * a[2]
RLt(a, b) == a[1] * b[2] < b[1] * a[2]

IsNum(v) == Len(v) = 2

---------------------------------------------------------------------------
(* AQI_CATEGORIES and its lookups.                                         *)

CategoryNames == {"Good", "Moderate", "Unhealthy for Sensitive Groups",
                  "Unhealthy", "Very Unhealthy", "Hazardous", "Unknown"}

AQI_CATEGORIES ==
    [c \in CategoryNames |->
        CASE c = "Good" -> [color |-> "#00e400", severity |-> 1]
          [] c = "Moderate" -> [color |-> "#ffff00", severity |-> 2]
          [] c = "Unhealthy for Sensitive Groups" ->
                 [color |-> "#ff7e00", severity |-> 3]
          [] c = "Unhealthy" -> [color |-> "#ff0000", severity |-> 4]
          [] c = "Very Unhealthy" -> [color |-> "#8f3f97", severity |-> 5]
          [] c = "Hazardous" -> [color |-> "#7e0023", severity |-> 6]
          [] c = "Unknown" -> [color |-> "#6b7280", severity |-> 0]]

\* AQI_CATEGORIES.get(cat, {}).get('severity', 0)
SeverityOf(cat) ==
    IF cat \in DOMAIN AQI_CATEGORIES THEN AQI_CATEGORIES[cat].severity ELSE 0

\* AQI_CATEGORIES.get(c, {}).get('color', AQI_CATEGORIES['Unknown']['color'])
ColorOf(cat) ==
    IF cat \in DOMAIN AQI_CATEGORIES THEN AQI_CATEGORIES[cat].color
    ELSE AQI_CATEGORIES["Unknown"].color

---------------------------------------------------------------------------
(* The six per-pollutant classifiers, each an if-chain of inclusive upper  *)
(* bounds as in the source.                                                *)

\* get_aqi_category_no2 with the first bound exclusive (< for <=)
get_aqi_category_no2_exclusive(concentration_ugm3) ==
    IF concentration_ugm3 = None THEN "Unknown"
    ELSE IF RLt(concentration_ugm3, Int2Rat(80)) THEN "Good"
    ELSE IF RLe(concentration_ugm3, Int2Rat(160)) THEN "Moderate"
    ELSE IF RLe(concentration_ugm3, Int2Rat(240))
         THEN "Unhealthy for Sensitive Groups"
    ELSE IF RLe(concentration_ugm3, Int2Rat(320)) THEN "Unhealthy"
    ELSE IF RLe(concentration_ugm3, Int2Rat(400)) THEN "Very Unhealthy"
    ELSE "Hazardous"

get_aqi_category_no2(concentration_ugm3) ==
    IF concentration_ugm3 = None THEN "Unknown"
    ELSE IF RLe(concentration_ugm3, Int2Rat(80)) THEN "Good"
    ELSE IF RLe(concentration_ugm3, Int2Rat(160)) THEN "Moderate"
    ELSE IF RLe(concentration_ugm3, Int2Rat(240))
         THEN "Unhealthy for Sensitive Groups"
    ELSE IF RLe(concentration_ugm3, Int2Rat(320)) THEN "Unhealthy"
    ELSE IF RLe(concentration_ugm3, Int2Rat(400)) THEN "Very Unhealthy"
    ELSE "Hazardous"

get_aqi_category_pm25(concentration_ugm3) ==
    IF concentration_ugm3 = None THEN "Unknown"
    ELSE IF RLe(concentration_ugm3, Rat(120, 10)) THEN "Good"
    ELSE IF RLe(concentration_ugm3, Rat(354, 10)) THEN "Moderate"
    ELSE IF RLe(concentration_ugm3, Rat(554, 10))
         THEN "Unhealthy for Sensitive Groups"
    ELSE IF RLe(concentration_ugm3, Rat(1504, 10)) THEN "Unhealthy"
    ELSE IF RLe(concentration_ugm3, Rat(2504, 10)) THEN "Very Unhealthy"
    ELSE "Hazardous"

get_aqi_category_pm10(concentration_ugm3) ==
    IF concentration_ugm3 = None THEN "Unknown"
    ELSE IF RLe(concentration_ugm3, Int2Rat(54)) THEN "Good"
    ELSE IF RLe(concentration_ugm3, Int2Rat(154)) THEN "Moderate"
    ELSE IF RLe(concentration_ugm3, Int2Rat(254))
         THEN "Unhealthy for Sensitive Groups"
    ELSE IF RLe(concentration_ugm3, Int2Rat(354)) THEN "Unhealthy"
    ELSE IF RLe(concentration_ugm3, Int2Rat(424)) THEN "Very Unhealthy"
    ELSE "Hazardous"

get_aqi_category_o3(concentration_ugm3) ==
    IF concentration_ugm3 = None THEN "Unknown"
    ELSE IF RLe(concentration_ugm3, Int2Rat(100)) THEN "Good"
    ELSE IF RLe(concentration_ugm3, Int2Rat(160)) THEN "Moderate"
    ELSE IF RLe(concentration_ugm3, Int2Rat(200))
         THEN "Unhealthy for Sensitive Groups"
    ELSE IF RLe(concentration_ugm3, Int2Rat(240)) THEN "Unhealthy"
    ELSE IF RLe(concentration_ugm3, Int2Rat(400)) THEN "Very Unhealthy"
    ELSE "Hazardous"

\* get_aqi_category_so2 with the labels of two bands exchanged
get_aqi_category_so2_swapped(concentration_ugm3) ==
    IF concentration_ugm3 = None THEN "Unknown"
    ELSE IF RLe(concentration_ugm3, Int2Rat(75)) THEN "Good"
    ELSE IF RLe(concentration_ugm3, Int2Rat(180)) THEN "Unhealthy"
    ELSE IF RLe(concentration_ugm3, Int2Rat(300))
         THEN "Unhealthy for Sensitive Groups"
    ELSE IF RLe(concentration_ugm3, Int2Rat(600)) THEN "Moderate"
    ELSE IF RLe(concentration_ugm3, Int2Rat(800)) THEN "Very Unhealthy"
    ELSE "Hazardous"

get_aqi_category_so2(concentration_ugm3) ==
    IF concentration_ugm3 = None THEN "Unknown"
    ELSE IF RLe(concentration_ugm3, Int2Rat(75)) THEN "Good"
    ELSE IF RLe(concentration_ugm3, Int2Rat(180)) THEN "Moderate"
    ELSE IF RLe(concentration_ugm3, Int2Rat(300))
         THEN "Unhealthy for Sensitive Groups"
    ELSE IF RLe(concentration_ugm3, Int2Rat(600)) THEN "Unhealthy"
    ELSE IF RLe(concentration_ugm3, Int2Rat(800)) THEN "Very Unhealthy"
    ELSE "Hazardous"

get_aqi_category_co(concentration_mgm3) ==
    IF concentration_mgm3 = None THEN "Unknown"
    ELSE IF RLe(concentration_mgm3, Rat(44, 10)) THEN "Good"
    ELSE IF RLe(concentration_mgm3, Rat(94, 10)) THEN "Moderate"
    ELSE IF RLe(concentration_mgm3, Rat(124, 10))
         THEN "Unhealthy for Sensitive Groups"
    ELSE IF RLe(concentration_mgm3, Rat(154, 10)) THEN "Unhealthy"
    ELSE IF RLe(concentration_mgm3, Rat(304, 10)) THEN "Very Unhealthy"
    ELSE "Hazardous"

Pollutants == {"no2", "pm25", "pm10", "o3", "so2", "co"}

\* The classifier the reduction applies to each key.
Classify(p, v) ==
    CASE p = "no2" -> get_aqi_category_no2(v)
      [] p = "pm25" -> get_aqi_category_pm25(v)
      [] p = "pm10" -> get_aqi_category_pm10(v)
      [] p = "o3" -> get_aqi_category_o3(v)
      [] p = "so2" -> get_aqi_category_so2(v)
      [] p = "co" -> get_aqi_category_co(v)

---------------------------------------------------------------------------
(* get_overall_aqi_category.  A dict is a function on DictKeys, the keys   *)
(* the program ever stores, that maps the keys the dict lacks to NoKey;    *)
(* the argument is [isNone, dict] so that a null mapping is distinct from  *)
(* the empty dict.                                                         *)

DictKeys == {"no2", "pm25", "pm10", "o3", "so2", "co", "source", "date_utc"}
NoKey == <<0>>
EmptyDict == [k \in DictKeys |-> NoKey]

\* the keys of a dict
KeysOf(d) == {k \in DictKeys : d[k] # NoKey}

DictArg(d) == [isNone |-> FALSE, dict |-> d]
NoneArg == [isNone |-> TRUE, dict |-> EmptyDict]

\* dict.get(key)
DictGet(d, key) == IF d[key] # NoKey THEN d[key] ELSE None

\* the scan order of categories_with_details
ScanOrder == <<"no2", "pm25", "pm10", "o3", "so2", "co">>

\* the for loop stopping one entry early (CO never inspected)
RECURSIVE WorstFromSkipLast(_, _, _, _)
WorstFromSkipLast(cats, i, worst_category, worst_severity) ==
    IF i >= Len(cats) THEN worst_category
    ELSE LET severity == SeverityOf(cats[i])
         IN  IF severity > worst_severity
             THEN WorstFromSkipLast(cats, i + 1, cats[i], severity)
             ELSE WorstFromSkipLast(cats, i + 1, worst_category,
                                    worst_severity)

\* the for loop over categories_with_details, from position i on
RECURSIVE WorstFrom(_, _, _, _)
WorstFrom(cats, i, worst_category, worst_severity) ==
    IF i > Len(cats) THEN worst_category
    ELSE LET severity == SeverityOf(cats[i])
         IN  IF severity > worst_severity
             THEN WorstFrom(cats, i + 1, cats[i], severity)
             ELSE WorstFrom(cats, i + 1, worst_category, worst_severity)

\* get_overall_aqi_category without the early return for a falsy argument
get_overall_aqi_category_no_guard(pollutant_data) ==
    LET categories_with_details ==
            [i \in 1..6 |->
                Classify(ScanOrder[i],
                         DictGet(pollutant_data.dict, ScanOrder[i]))]
        worst_category == WorstFrom(categories_with_details, 1, "Good", 0)
    IN  [category |-> worst_category, color |-> ColorOf(worst_category)]

get_overall_aqi_category(pollutant_data) ==
    IF pollutant_data.isNone \/ KeysOf(pollutant_data.dict) = {}
    THEN [category |-> "Unknown", color |-> AQI_CATEGORIES["Unknown"].color]
    ELSE LET categories_with_details ==
                 [i \in 1..6 |->
                     Classify(ScanOrder[i],
                              DictGet(pollutant_data.dict, ScanOrder[i]))]
             worst_category == WorstFrom(categories_with_details, 1, "Good", 0)
         IN  [category |-> worst_category, color |-> ColorOf(worst_category)]

---------------------------------------------------------------------------
(* convert_concentration.                                                  *)

UGM3 == "ug/m3"
UGM3_MICRO == "ug/m3 (micro sign, superscript three)"
MGM3 == "mg/m3"
PPM == "ppm"
PPB == "ppb"
NGM3 == "ng/m3"

\* convert_concentration multiplying where ng/m3 must divide
convert_concentration_ng_times(value, unit, parameter) ==
    IF value = None THEN None
    ELSE IF unit \in {UGM3, UGM3_MICRO} THEN value
    ELSE IF unit = MGM3 /\ parameter # "co" THEN RMul(value, Int2Rat(1000))
    ELSE IF unit = PPM THEN
        IF parameter = "co" THEN RMul(value, Rat(1145, 1000))
        ELSE IF parameter = "o3" THEN RMul(value, Int2Rat(1960))
        ELSE IF parameter = "so2" THEN RMul(value, Int2Rat(2620))
        ELSE IF parameter = "no2" THEN RMul(value, Int2Rat(1880))
        ELSE None
    ELSE IF unit = PPB THEN
        IF parameter = "o3" THEN RMul(value, Rat(196, 100))
        ELSE IF parameter = "so2" THEN RMul(value, Rat(262, 100))
        ELSE IF parameter = "no2" THEN RMul(value, Rat(188, 100))
        ELSE None
    ELSE IF unit = NGM3 THEN RMul(value, Int2Rat(1000))
    ELSE None

\* convert_concentration handing back the value of an unhandled unit
convert_concentration_passthrough(value, unit, parameter) ==
    IF value = None THEN None
    ELSE IF unit \in {UGM3, UGM3_MICRO} THEN value
    ELSE IF unit = MGM3 /\ parameter # "co" THEN RMul(value, Int2Rat(1000))
    ELSE IF unit = PPM THEN
        IF parameter = "co" THEN RMul(value, Rat(1145, 1000))
        ELSE IF parameter = "o3" THEN RMul(value, Int2Rat(1960))
        ELSE IF parameter = "so2" THEN RMul(value, Int2Rat(2620))
        ELSE IF parameter = "no2" THEN RMul(value, Int2Rat(1880))
        ELSE None
    ELSE IF unit = PPB THEN
        IF parameter = "o3" THEN RMul(value, Rat(196, 100))
        ELSE IF parameter = "so2" THEN RMul(value, Rat(262, 100))
        ELSE IF parameter = "no2" THEN RMul(value, Rat(188, 100))
        ELSE None
    ELSE IF unit = NGM3 THEN RDiv(value, Int2Rat(1000))
    ELSE value

convert_concentration(value, unit, parameter) ==
    IF value = None THEN None
    ELSE IF unit \in {UGM3, UGM3_MICRO} THEN value
    ELSE IF unit = MGM3 /\ parameter # "co" THEN RMul(value, Int2Rat(1000))
    ELSE IF unit = PPM THEN
        IF parameter = "co" THEN RMul(value, Rat(1145, 1000))
        ELSE IF parameter = "o3" THEN RMul(value, Int2Rat(1960))
        ELSE IF parameter = "so2" THEN RMul(value, Int2Rat(2620))
        ELSE IF parameter = "no2" THEN RMul(value, Int2Rat(1880))
        ELSE None
    ELSE IF unit = PPB THEN
        IF parameter = "o3" THEN RMul(value, Rat(196, 100))
        ELSE IF parameter = "so2" THEN RMul(value, Rat(262, 100))
        ELSE IF parameter = "no2" THEN RMul(value, Rat(188, 100))
        ELSE None
    ELSE IF unit = NGM3 THEN RDiv(value, Int2Rat(1000))
    ELSE None

---------------------------------------------------------------------------
(* The unit strings and parameter names the model feeds the program.       *)

OtherUnit == "ppt"           \* a unit string outside the recognised ones
OtherParameter == "bc"       \* a parameter outside the six pollutants

Units == {UGM3, UGM3_MICRO, MGM3, PPM, PPB, NGM3, OtherUnit}
Parameters == Pollutants \cup {OtherParameter}

---------------------------------------------------------------------------
(* get_mock_prediction: random.uniform draws one value per pollutant from  *)
(* its interval; the model draws one of the interval's two end points.     *)

MockSource == <<"AI Model Prediction", " (Mock Data)">>

MockRange(p) ==
    CASE p = "no2" -> <<Int2Rat(20), Int2Rat(100)>>
      [] p = "pm25" -> <<Int2Rat(5), Int2Rat(50)>>
      [] p = "pm10" -> <<Int2Rat(10), Int2Rat(100)>>
      [] p = "o3" -> <<Int2Rat(30), Int2Rat(80)>>
      [] p = "so2" -> <<Int2Rat(10), Int2Rat(60)>>
      [] p = "co" -> <<Rat(5, 10), Rat(50, 10)>>

\* the dict get_mock_prediction returns when random.uniform picks end point
\* draw[p] of the interval of pollutant p
get_mock_prediction(draw) ==
    [k \in DictKeys |->
        IF k \in Pollutants THEN MockRange(k)[draw[k]]
        ELSE IF k = "source" THEN MockSource
        ELSE None]

MockDraws == [Pollutants -> 1..2]

---------------------------------------------------------------------------
(* predict_single_point.  The OpenAQ answer is revealed as the handler     *)
(* reads it: the fetch decides how many locations there are, each visit    *)
(* of a location decides its measurements, each visit of a measurement     *)
(* decides its fields.                                                     *)

SourcePrefix == "AI Model Prediction"
SourceLive == <<"Live", " (OpenAQ API)">>
SourceHTTPError == <<SourcePrefix, " (OpenAQ API HTTP Error: status)">>
SourceNetworkError == <<SourcePrefix, " (OpenAQ Network Error)">>
SourceTimeout == <<SourcePrefix, " (OpenAQ Timeout)">>
SourceUnexpected == <<SourcePrefix, " (Unexpected OpenAQ Error: e)">>
SourceKeyMissing == <<SourcePrefix, " (OpenAQ API Key Missing)">>

\* source.startswith("AI Model Prediction")
StartsWithPrefix(src) == src[1] = SourcePrefix

\* truthiness of a request number: None and 0 are falsy
Truthy(v) == v # None /\ v[1] # 0

\* request bodies: a coordinate is missing or null, zero, or another number
Coordinates == {None, Int2Rat(0), Rat(287, 10)}

\* what a measurement may hold
MeasValues == {None, Int2Rat(50)}
MeasUnits == {UGM3, MGM3, PPB, OtherUnit}
RawParameters == Parameters \cup {"PM25"}
Time(t) == <<t>>
Timestamps == {None} \cup {Time(t) : t \in 1..MaxTime}

\* str.lower() on the parameter names the model draws
Lower(str) == IF str = "PM25" THEN "pm25" ELSE str

NoMeas == [parameter |-> "", value |-> None, unit |-> "",
           converted_value |-> None]

UnknownOverall ==
    [category |-> "Unknown", color |-> AQI_CATEGORIES["Unknown"].color]

NoResponse ==
    [status |-> 0, error |-> "", no2 |-> None, pm25 |-> None, pm10 |-> None,
     o3 |-> None, so2 |-> None, co |-> None, source |-> <<"", "">>,
     date_utc |-> None, overallAqiCategory |-> "", overallAqiColor |-> ""]

HandlerIdle ==
    /\ pc = "idle"
    /\ latitude = None
    /\ longitude = None
    /\ aqi_data = EmptyDict
    /\ source = <<"", "">>
    /\ date_utc = None
    /\ found_live_data = FALSE
    /\ overall = UnknownOverall
    /\ locsLeft = 0
    /\ measLeft = 0
    /\ lastMeas = NoMeas
    /\ converted = EmptyDict
    /\ anyConverted = FALSE
    /\ outcome = "none"
    /\ mock = EmptyDict
    /\ response = NoResponse

\* lines 212-225 and 296-297: read the request, reject it or set the locals
Request ==
    /\ pc = "idle"
    /\ \E lat \in Coordinates, lng \in Coordinates :
         /\ latitude' = lat
         /\ longitude' = lng
         /\ IF ~(Truthy(lat) /\ Truthy(lng))
            THEN /\ response' = [NoResponse EXCEPT
                                    !.status = 400,
                                    !.error = "Missing latitude or longitude"]
                 /\ pc' = "done"
                 /\ UNCHANGED <<aqi_data, source, date_utc, overall, outcome>>
            ELSE /\ aqi_data' = EmptyDict
                 /\ date_utc' = None
                 /\ overall' = UnknownOverall
                 /\ IF OPENAQ_API_KEY
                    THEN /\ source' = MockSource
                         /\ pc' = "fetch"
                         /\ UNCHANGED outcome
                    ELSE /\ source' = SourceKeyMissing
                         /\ pc' = "fallback"
                         /\ outcome' = "no_key"
                 /\ UNCHANGED response
    /\ UNCHANGED <<call, ret, OPENAQ_API_KEY, found_live_data, locsLeft,
                   measLeft, lastMeas, converted, anyConverted, mock>>

\* an except clause of lines 284-295: the source string it sets
Except(kind) ==
    CASE kind = "http_error" -> SourceHTTPError
      [] kind = "connection_error" -> SourceNetworkError
      [] kind = "timeout" -> SourceTimeout
      [] kind = "exception" -> SourceUnexpected

\* lines 241-247: the request to OpenAQ and the test of its answer
Fetch ==
    /\ pc = "fetch"
    /\ \/ \E kind \in {"http_error", "connection_error", "timeout",
                        "exception"} :
            /\ source' = Except(kind)
            /\ outcome' = kind
            /\ pc' = "fallback"
            /\ UNCHANGED <<found_live_data, locsLeft>>
       \/ \* no 'results' key, or an empty list
          /\ outcome' = "no_results"
          /\ pc' = "fallback"
          /\ UNCHANGED <<source, found_live_data, locsLeft>>
       \/ \E n \in 1..MaxLocs :
            /\ found_live_data' = FALSE
            /\ locsLeft' = n
            /\ pc' = "locations"
            /\ UNCHANGED <<source, outcome>>
    /\ UNCHANGED <<call, ret, OPENAQ_API_KEY, latitude, longitude, aqi_data,
                   date_utc, overall, measLeft, lastMeas, converted,
                   anyConverted, mock, response>>

\* lines 248-249 and 271-272: the next location of the result list
Location ==
    /\ pc = "locations"
    /\ \/ \* the list is exhausted
          /\ locsLeft = 0
          /\ pc' = "after_loop"
          /\ UNCHANGED <<locsLeft, measLeft, source, outcome>>
       \/ \* a location without measurements: found_live_data stays False
          /\ locsLeft > 0
          /\ locsLeft' = locsLeft - 1
          /\ UNCHANGED <<pc, measLeft, source, outcome>>
       \/ \* a location with measurements
          /\ locsLeft > 0
          /\ \E m \in 1..MaxMeas : measLeft' = m
          /\ locsLeft' = locsLeft - 1
          /\ pc' = "measurements"
          /\ UNCHANGED <<source, outcome>>
       \/ \* an entry that is no object: the membership test raises
          /\ locsLeft > 0
          /\ source' = Except("exception")
          /\ outcome' = "exception"
          /\ pc' = "fallback"
          /\ UNCHANGED <<locsLeft, measLeft>>
    /\ UNCHANGED <<call, ret, OPENAQ_API_KEY, latitude, longitude, aqi_data,
                   date_utc, found_live_data, overall, lastMeas, converted,
                   anyConverted, mock, response>>

\* Store without the test that the conversion gave a value
StoreUnguarded(data, parameter, converted_value) ==
    IF parameter \in {"pm25", "pm10", "no2", "o3", "so2", "co"}
    THEN [data EXCEPT ![parameter] = converted_value]
    ELSE data

\* lines 257-264: store a converted value under its pollutant's key
Store(data, parameter, converted_value) ==
    IF converted_value # None
    THEN IF parameter \in {"pm25", "pm10", "no2", "o3", "so2", "co"}
         THEN [data EXCEPT ![parameter] = converted_value]
         ELSE data
    ELSE data

\* lines 266-269: keep the latest timestamp
LatestOf(date, last_updated) ==
    IF last_updated # None
    THEN IF date = None \/ last_updated[1] > date[1]
         THEN last_updated ELSE date
    ELSE date

\* lines 250-272: one measurement of the current location, or the end of
\* its list (found_live_data = True, then break)
Measurement ==
    /\ pc = "measurements"
    /\ \/ /\ measLeft = 0
          /\ found_live_data' = TRUE
          /\ pc' = "after_loop"
          /\ lastMeas' = NoMeas
          /\ UNCHANGED <<measLeft, aqi_data, date_utc, source, converted,
                         anyConverted, outcome>>
       \/ /\ measLeft > 0
          /\ \E raw \in RawParameters, value \in MeasValues,
                unit \in MeasUnits, last_updated \in Timestamps :
               LET parameter == Lower(raw)
                   converted_value ==
                       convert_concentration(value, unit, parameter)
               IN  /\ aqi_data' = Store(aqi_data, parameter, converted_value)
                   /\ date_utc' = LatestOf(date_utc, last_updated)
                   /\ lastMeas' = [parameter |-> parameter, value |-> value,
                                   unit |-> unit,
                                   converted_value |-> converted_value]
                   /\ converted' =
                          IF converted_value # None /\ parameter \in Pollutants
                          THEN [converted EXCEPT ![parameter] = converted_value]
                          ELSE converted
                   /\ anyConverted' = (anyConverted \/ converted_value # None)
          /\ measLeft' = measLeft - 1
          /\ UNCHANGED <<pc, found_live_data, source, outcome>>
       \/ \* a measurement whose parameter is null: .lower() raises
          /\ measLeft > 0
          /\ source' = Except("exception")
          /\ outcome' = "exception"
          /\ pc' = "fallback"
          /\ lastMeas' = NoMeas
          /\ UNCHANGED <<measLeft, aqi_data, date_utc, found_live_data,
                         converted, anyConverted>>
    /\ UNCHANGED <<call, ret, OPENAQ_API_KEY, latitude, longitude, overall,
                   locsLeft, mock, response>>

\* AfterLoop without the computation of the overall category
AfterLoopStale ==
    /\ pc = "after_loop"
    /\ IF found_live_data
       THEN /\ source' = SourceLive
            /\ outcome' = IF anyConverted THEN "live" ELSE "none_converted"
            /\ UNCHANGED overall
       ELSE /\ outcome' = "no_measurements"
            /\ UNCHANGED <<source, overall>>
    /\ pc' = "fallback"
    /\ UNCHANGED <<call, ret, OPENAQ_API_KEY, latitude, longitude, aqi_data,
                   date_utc, found_live_data, locsLeft, measLeft, lastMeas,
                   converted, anyConverted, mock, response>>

\* lines 274-281: after the loop over the locations
AfterLoop ==
    /\ pc = "after_loop"
    /\ IF found_live_data
       THEN /\ source' = SourceLive
            /\ overall' = get_overall_aqi_category(DictArg(aqi_data))
            /\ outcome' = IF anyConverted THEN "live" ELSE "none_converted"
       ELSE /\ outcome' = "no_measurements"
            /\ UNCHANGED <<source, overall>>
    /\ pc' = "fallback"
    /\ UNCHANGED <<call, ret, OPENAQ_API_KEY, latitude, longitude, aqi_data,
                   date_utc, found_live_data, locsLeft, measLeft, lastMeas,
                   converted, anyConverted, mock, response>>

\* an update that fills only the keys the dict lacks
DictUpdateMissingOnly(d, other) ==
    [k \in DictKeys |-> IF d[k] = NoKey THEN other[k] ELSE d[k]]

\* dict.update(other)
DictUpdate(d, other) ==
    [k \in DictKeys |-> IF other[k] # NoKey THEN other[k] ELSE d[k]]

\* lines 299-308: fall back to mock data
Fallback ==
    /\ pc = "fallback"
    /\ IF KeysOf(aqi_data) = {} \/ StartsWithPrefix(source)
       THEN \E draw \in MockDraws :
              LET mock_pollutant_data == get_mock_prediction(draw)
                  filled == DictUpdate(aqi_data, mock_pollutant_data)
              IN  /\ mock' = mock_pollutant_data
                  /\ aqi_data' = filled
                  /\ overall' = get_overall_aqi_category(DictArg(filled))
                  /\ source' = IF ~StartsWithPrefix(source)
                               THEN DictGet(mock_pollutant_data, "source")
                               ELSE source
                  /\ date_utc' = DictGet(mock_pollutant_data, "date_utc")
       ELSE UNCHANGED <<mock, aqi_data, overall, source, date_utc>>
    /\ pc' = "respond"
    /\ UNCHANGED <<call, ret, OPENAQ_API_KEY, latitude, longitude,
                   found_live_data, locsLeft, measLeft, lastMeas, converted,
                   anyConverted, outcome, response>>

\* lines 311-325: the response
Respond ==
    /\ pc = "respond"
    /\ response' = [status |-> 200, error |-> "",
                    no2 |-> DictGet(aqi_data, "no2"),
                    pm25 |-> DictGet(aqi_data, "pm25"),
                    pm10 |-> DictGet(aqi_data, "pm10"),
                    o3 |-> DictGet(aqi_data, "o3"),
                    so2 |-> DictGet(aqi_data, "so2"),
                    co |-> DictGet(aqi_data, "co"),
                    source |-> source,
                    date_utc |-> date_utc,
                    overallAqiCategory |-> overall.category,
                    overallAqiColor |-> overall.color]
    /\ pc' = "done"
    /\ UNCHANGED <<call, ret, OPENAQ_API_KEY, latitude, longitude, aqi_data,
                   source, date_utc, found_live_data, overall, locsLeft,
                   measLeft, lastMeas, converted, anyConverted, outcome, mock>>

---------------------------------------------------------------------------
(* Direct calls of the module-level functions.  Each action draws the      *)
(* arguments from a bounded set, applies the function and records the      *)
(* call and what it returned.  The functions keep no state, so one call    *)
(* per behaviour covers them.                                              *)

\* upper bounds of the bands, used to place the inputs of the classifiers
BandBound(p, i) ==
    CASE p = "no2" -> <<Int2Rat(80), Int2Rat(160), Int2Rat(240),
                        Int2Rat(320), Int2Rat(400)>>[i]
      [] p = "pm25" -> <<Rat(120, 10), Rat(354, 10), Rat(554, 10),
                         Rat(1504, 10), Rat(2504, 10)>>[i]
      [] p = "pm10" -> <<Int2Rat(54), Int2Rat(154), Int2Rat(254),
                         Int2Rat(354), Int2Rat(424)>>[i]
      [] p = "o3" -> <<Int2Rat(100), Int2Rat(160), Int2Rat(200),
                       Int2Rat(240), Int2Rat(400)>>[i]
      [] p = "so2" -> <<Int2Rat(75), Int2Rat(180), Int2Rat(300),
                        Int2Rat(600), Int2Rat(800)>>[i]
      [] p = "co" -> <<Rat(44, 10), Rat(94, 10), Rat(124, 10),
                       Rat(154, 10), Rat(304, 10)>>[i]

ConvertValues == {Rat(k, 2) : k \in (-1)..(2 * MaxVal)} \cup {None}

ClassifyValues(p) ==
    {RAdd(BandBound(p, i), Rat(k, 100)) : i \in 1..5, k \in (-Grid)..Grid}
        \cup {Int2Rat(0), Int2Rat(-1), Int2Rat(1000), None}

\* values a reduction input may hold under key p: index 0 is None, 1..MaxBand
\* the bound of that band, MaxBand + 1 a value above every bound
OverallValue(p, k) ==
    IF k = 0 THEN None
    ELSE IF k <= MaxBand THEN BandBound(p, k)
    ELSE RAdd(BandBound(p, 5), Int2Rat(1))

Missing == MaxBand + 2       \* index meaning "key not in the dict"

\* the two keys get_mock_prediction adds besides the pollutants
OverallDict(idx, extra) ==
    [k \in DictKeys |->
        IF k \in Pollutants
        THEN IF idx[k] = Missing THEN NoKey ELSE OverallValue(k, idx[k])
        ELSE IF ~extra THEN NoKey
        ELSE IF k = "source" THEN <<"AI Model Prediction", "(Mock Data)">>
        ELSE None]

\* A recorded call: the function's name and its arguments (the fields a
\* function does not take hold the defaults below).
CallOf(fn, value, unit, parameter, pollutant_data) ==
    [fn |-> fn, value |-> value, unit |-> unit, parameter |-> parameter,
     pollutant_data |-> pollutant_data]

NoCall == CallOf("none", None, "", "", NoneArg)

\* A recorded return value: a number or None (value), a category name, or a
\* category with its colour.
RetValue(v) == [value |-> v, category |-> "", color |-> ""]
RetCategory(c) == [value |-> None, category |-> c, color |-> ""]
RetOverall(r) == [value |-> None, category |-> r.category, color |-> r.color]
NoRet == RetCategory("")

CallConvert ==
    /\ call = NoCall
    /\ \E value \in ConvertValues, unit \in Units, parameter \in Parameters :
         /\ call' = CallOf("convert_concentration", value, unit, parameter,
                           NoneArg)
         /\ ret' = RetValue(convert_concentration(value, unit, parameter))
    /\ UNCHANGED handlerVars

CallClassify ==
    /\ call = NoCall
    /\ \E p \in Pollutants :
         \E v \in ClassifyValues(p) :
           /\ call' = CallOf("get_aqi_category", v, "", p, NoneArg)
           /\ ret' = RetCategory(Classify(p, v))
    /\ UNCHANGED handlerVars

CallOverall ==
    /\ call = NoCall
    /\ \/ \E idx \in [Pollutants -> 0..Missing], extra \in BOOLEAN :
            LET pd == DictArg(OverallDict(idx, extra))
            IN  /\ call' = CallOf("get_overall_aqi_category", None, "", "", pd)
                /\ ret' = RetOverall(get_overall_aqi_category(pd))
       \/ /\ call' = CallOf("get_overall_aqi_category", None, "", "", NoneArg)
          /\ ret' = RetOverall(get_overall_aqi_category(NoneArg))
    /\ UNCHANGED handlerVars

InitFn ==
    /\ call = NoCall
    /\ ret = NoRet
    /\ OPENAQ_API_KEY = FALSE
    /\ HandlerIdle

NextFn == CallConvert \/ CallClassify \/ CallOverall

SpecFn == InitFn /\ [][NextFn]_vars

\* The service: the key is read from the environment at import, then the
\* handler serves a request.
Init ==
    /\ call = NoCall
    /\ ret = NoRet
    /\ OPENAQ_API_KEY \in BOOLEAN
    /\ HandlerIdle

Next ==
    \/ Request
    \/ Fetch
    \/ Location
    \/ Measurement
    \/ AfterLoop
    \/ Fallback
    \/ Respond

Spec == Init /\ [][Next]_vars

---------------------------------------------------------------------------
(* Properties of the module-level functions, checked under SpecFn.         *)

IsConvertCall == call.fn = "convert_concentration"
IsClassifyCall == call.fn = "get_aqi_category"
IsOverallCall == call.fn = "get_overall_aqi_category"

UnknownResult == RetOverall([category |-> "Unknown", color |-> "#6b7280"])

\* C1: for every present value v, convert_concentration(v, 'mg/m3', 'co')
\* returns v unchanged.
C1_MgM3CoUnchanged ==
    (IsConvertCall /\ call.unit = MGM3 /\ call.parameter = "co"
        /\ call.value # None)
    => ret.value = call.value

\* every one of the six pollutant values of the call's mapping is absent
AllSixAbsent ==
    \A p \in Pollutants : DictGet(call.pollutant_data.dict, p) = None

\* C2: get_overall_aqi_category on a non-empty mapping whose six pollutant
\* values are all absent or null returns ('Unknown', '#6b7280').
C2_AllAbsentIsUnknown ==
    (IsOverallCall /\ ~call.pollutant_data.isNone
        /\ KeysOf(call.pollutant_data.dict) # {} /\ AllSixAbsent)
    => ret = UnknownResult

\* the threshold table of spec.md section 4.2, row by row
SpecTable ==
    [p \in Pollutants |->
        CASE p = "no2" -> <<Int2Rat(80), Int2Rat(160), Int2Rat(240),
                            Int2Rat(320), Int2Rat(400)>>
          [] p = "pm25" -> <<Rat(120, 10), Rat(354, 10), Rat(554, 10),
                             Rat(1504, 10), Rat(2504, 10)>>
          [] p = "pm10" -> <<Int2Rat(54), Int2Rat(154), Int2Rat(254),
                             Int2Rat(354), Int2Rat(424)>>
          [] p = "o3" -> <<Int2Rat(100), Int2Rat(160), Int2Rat(200),
                           Int2Rat(240), Int2Rat(400)>>
          [] p = "so2" -> <<Int2Rat(75), Int2Rat(180), Int2Rat(300),
                            Int2Rat(600), Int2Rat(800)>>
          [] p = "co" -> <<Rat(44, 10), Rat(94, 10), Rat(124, 10),
                           Rat(154, 10), Rat(304, 10)>>]

\* the categories of the table's columns, in order
SpecBands == <<"Good", "Moderate", "Unhealthy for Sensitive Groups",
               "Unhealthy", "Very Unhealthy", "Hazardous">>

\* the severity rank of spec.md section 3
SpecRank(c) ==
    CASE c = "Unknown" -> 0
      [] c = "Good" -> 1
      [] c = "Moderate" -> 2
      [] c = "Unhealthy for Sensitive Groups" -> 3
      [] c = "Unhealthy" -> 4
      [] c = "Very Unhealthy" -> 5
      [] c = "Hazardous" -> 6

\* the colour table of spec.md section 4.2
SpecColor(c) ==
    CASE c = "Unknown" -> "#6b7280"
      [] c = "Good" -> "#00e400"
      [] c = "Moderate" -> "#ffff00"
      [] c = "Unhealthy for Sensitive Groups" -> "#ff7e00"
      [] c = "Unhealthy" -> "#ff0000"
      [] c = "Very Unhealthy" -> "#8f3f97"
      [] c = "Hazardous" -> "#7e0023"

\* the bands of pollutant p whose inclusive upper bound is >= v
BandsAtOrAbove(p, v) == {i \in 1..5 : RLe(v, SpecTable[p][i])}

Min(S) == CHOOSE x \in S : \A y \in S : x <= y
Max(S) == CHOOSE x \in S : \A y \in S : y <= x

\* the category the table assigns: first band whose bound is >= v
SpecClassify(p, v) ==
    IF v = None THEN "Unknown"
    ELSE IF BandsAtOrAbove(p, v) = {} THEN "Hazardous"
    ELSE SpecBands[Min(BandsAtOrAbove(p, v))]

\* C3: each per-pollutant classifier returns the category of the first band
\* of the threshold table whose inclusive upper bound is >= the value,
\* Hazardous above the fifth bound and Unknown for an absent value; a value
\* equal to a bound falls in the lower band.
C3_ClassifierFollowsTable ==
    IsClassifyCall => ret.category = SpecClassify(call.parameter, call.value)

\* a value exactly on a bound was classified into the lower band, and a value
\* just above it into the next
C3_Witness ==
    /\ IsClassifyCall
    /\ call.parameter = "no2"
    /\ call.value = Int2Rat(80)
    /\ ret.category = "Good"
    /\ Classify("no2", Rat(8001, 100)) = "Moderate"

\* the six per-pollutant categories of the call's mapping
SixCategories ==
    [p \in Pollutants |->
        SpecClassify(p, DictGet(call.pollutant_data.dict, p))]

\* C4: for a mapping with at least one of the six values present,
\* get_overall_aqi_category returns the category whose rank is the maximum
\* of the six per-pollutant ranks (a missing key counts as Unknown), with
\* that category's colour from the fixed table.
C4_OverallIsWorst ==
    (IsOverallCall /\ ~call.pollutant_data.isNone /\ ~AllSixAbsent)
    => /\ SpecRank(ret.category) =
              Max({SpecRank(SixCategories[p]) : p \in Pollutants})
       /\ \E p \in Pollutants : SixCategories[p] = ret.category
       /\ ret.color = SpecColor(ret.category)

\* a mapping that lacks keys and whose worst pollutant is CO was reduced
C4_Witness ==
    /\ IsOverallCall
    /\ ~call.pollutant_data.isNone
    /\ "no2" \in KeysOf(call.pollutant_data.dict)
    /\ "pm25" \notin KeysOf(call.pollutant_data.dict)
    /\ SixCategories["no2"] = "Good"
    /\ SixCategories["co"] = "Hazardous"
    /\ ret = RetOverall([category |-> "Hazardous", color |-> "#7e0023"])

\* the factor the specification gives for (unit, pollutant), None where it
\* gives none
SpecFactor(unit, parameter) ==
    IF unit \in {UGM3, UGM3_MICRO} THEN Int2Rat(1)
    ELSE IF unit = MGM3 /\ parameter # "co" THEN Int2Rat(1000)
    ELSE IF unit = PPM /\ parameter = "co" THEN Rat(1145, 1000)
    ELSE IF unit = PPM /\ parameter = "o3" THEN Int2Rat(1960)
    ELSE IF unit = PPM /\ parameter = "so2" THEN Int2Rat(2620)
    ELSE IF unit = PPM /\ parameter = "no2" THEN Int2Rat(1880)
    ELSE IF unit = PPB /\ parameter = "o3" THEN Rat(196, 100)
    ELSE IF unit = PPB /\ parameter = "so2" THEN Rat(262, 100)
    ELSE IF unit = PPB /\ parameter = "no2" THEN Rat(188, 100)
    ELSE IF unit = NGM3 THEN Rat(1, 1000)
    ELSE None

RecognisedUnits == {UGM3, UGM3_MICRO, MGM3, PPM, PPB, NGM3}

\* C6: convert_concentration returns absent when the value is absent, when
\* the unit is outside the recognised set, for ppm with PM2.5 or PM10, and
\* for ppb with CO, PM2.5 or PM10.
C6_AbsentCases ==
    (IsConvertCall
        /\ \/ call.value = None
           \/ call.unit \notin RecognisedUnits
           \/ call.unit = PPM /\ call.parameter \in {"pm25", "pm10"}
           \/ call.unit = PPB /\ call.parameter \in {"co", "pm25", "pm10"})
    => ret.value = None

\* a present value with an unrecognised unit was converted to absent
C6_Witness ==
    /\ IsConvertCall
    /\ call.value = Int2Rat(1)
    /\ call.unit = OtherUnit
    /\ call.parameter = "no2"
    /\ ret.value = None

\* C8: each classifier is total and monotonic over non-negative values: the
\* category is one of Good..Hazardous, never Unknown, and a larger value
\* never has a smaller rank.
C8_TotalAndMonotonic ==
    (IsClassifyCall /\ call.value # None /\ RLe(Int2Rat(0), call.value))
    => /\ ret.category \in {SpecBands[i] : i \in 1..6}
       /\ \A w \in ClassifyValues(call.parameter) \ {None} :
            /\ (RLe(Int2Rat(0), w) /\ RLe(w, call.value))
                  => SpecRank(Classify(call.parameter, w)) <= SpecRank(ret.category)
            /\ RLe(call.value, w)
                  => SpecRank(ret.category) <= SpecRank(Classify(call.parameter, w))

\* a value inside the fourth SO2 band was classified, with values below it
\* ranked lower and values above it ranked higher
C8_Witness ==
    /\ IsClassifyCall
    /\ call.parameter = "so2"
    /\ call.value = Rat(30001, 100)
    /\ ret.category = "Unhealthy"
    /\ SpecRank(Classify("so2", Int2Rat(0))) < SpecRank(ret.category)
    /\ SpecRank(ret.category) < SpecRank(Classify("so2", Int2Rat(1000)))

\* C9: get_overall_aqi_category on an empty or null mapping returns
\* ('Unknown', '#6b7280').
C9_EmptyIsUnknown ==
    (IsOverallCall
        /\ (call.pollutant_data.isNone \/ KeysOf(call.pollutant_data.dict) = {}))
    => ret = UnknownResult

\* the empty dict was reduced
C9_Witness ==
    /\ IsOverallCall
    /\ ~call.pollutant_data.isNone
    /\ KeysOf(call.pollutant_data.dict) = {}
    /\ ret = UnknownResult

---------------------------------------------------------------------------
(* Properties of predict_single_point, checked under Spec.                 *)

\* the ways the live fetch of an accepted request is unavailable
UnavailableOutcomes ==
    {"no_key", "http_error", "connection_error", "timeout", "exception",
     "no_results", "no_measurements", "none_converted"}

WorstConverted ==
    SpecBands[Max({SpecRank(SpecClassify(p, DictGet(converted, p))) :
                      p \in KeysOf(converted)})]

\* the live response carries the worst category of the converted pollutants
LiveOverallIsWorstConverted ==
    (pc = "done" /\ outcome = "live" /\ KeysOf(converted) # {})
    => /\ response.overallAqiCategory = WorstConverted
       /\ response.overallAqiColor = SpecColor(WorstConverted)

\* C10: a measurement whose value is absent or whose unit is unrecognised
\* (convert_concentration returns absent) leaves the accumulated mapping
\* unchanged for every pollutant, and the overall category of the live
\* response is the worst category among the pollutants that did convert.
C10_AbsentMeasurementIsSkipped ==
    [][/\ (/\ pc = "measurements"
           /\ measLeft' = measLeft - 1
           /\ \/ lastMeas'.value = None
              \/ lastMeas'.unit \notin RecognisedUnits
              \/ lastMeas'.converted_value = None)
          => (lastMeas'.converted_value = None /\ aqi_data' = aqi_data)
       /\ LiveOverallIsWorstConverted']_vars

\* a measurement with a present value and an unrecognised unit was read
\* after a value of the same pollutant had been stored
C10_Witness ==
    /\ pc = "measurements"
    /\ lastMeas.value # None
    /\ lastMeas.unit = OtherUnit
    /\ lastMeas.converted_value = None
    /\ lastMeas.parameter \in KeysOf(aqi_data)

\* C11: when the handler falls back to mock data after pollutant values
\* were gathered from live measurements, the mock values fill only the
\* pollutants that are still missing: every value obtained from a live
\* measurement is the value returned in the response.
C11_LiveValuesSurviveFallback ==
    (pc = "done" /\ response.status = 200 /\ KeysOf(mock) # {})
    => \A p \in KeysOf(converted) : response[p] = converted[p]

\* the measurements of the current location have all been read
EndOfLocation == pc = "measurements" /\ measLeft = 0

\* C12: the scan of the locations stops at the first location that yielded
\* at least one stored pollutant value, and locations after it are never
\* read; a location whose measurements yielded no pollutant value does not
\* stop the scan.
C12_ScanStopsAtFirstStoredValue ==
    [][/\ (EndOfLocation /\ KeysOf(aqi_data) # {})
          => (pc' = "after_loop" /\ locsLeft' = locsLeft)
       /\ (EndOfLocation /\ KeysOf(aqi_data) = {} /\ locsLeft > 0)
          => pc' = "locations"]_vars

\* C13: the handler answers 400 'Missing latitude or longitude' if and only
\* if latitude or longitude is missing or null; a request that supplies
\* both as numbers, 0 included, is accepted, and a rejected request
\* triggers neither a live fetch nor mock generation.
C13_RejectedIffMissing ==
    pc # "idle"
    => /\ (response.status = 400) <=> (latitude = None \/ longitude = None)
       /\ (latitude # None /\ longitude # None)
             => (pc # "done" \/ response.status = 200)
       /\ response.status = 400
             => (/\ response.error = "Missing latitude or longitude"
                 /\ pc = "done"
                 /\ outcome = "none"
                 /\ KeysOf(mock) = {})

\* the dict that holds exactly the six pollutant values of the response
ResponsePollutants ==
    [k \in DictKeys |-> IF k \in Pollutants THEN response[k] ELSE NoKey]

\* C14: in every 200 response, on every path, overallAqiCategory and
\* overallAqiColor equal the result of get_overall_aqi_category applied to
\* the six pollutant values carried in that response; the placeholder
\* 'Unknown' is never returned unrecomputed.
C14_OverallMatchesResponse ==
    response.status = 200
    => /\ [category |-> response.overallAqiCategory,
           color |-> response.overallAqiColor]
              = get_overall_aqi_category(DictArg(ResponsePollutants))
       /\ response.overallAqiCategory # "Unknown"

\* a live response (no fallback) whose overall category comes from a
\* converted measurement while other pollutants are absent from it
C14_Witness ==
    /\ pc = "done"
    /\ response.status = 200
    /\ response.source = SourceLive
    /\ KeysOf(mock) = {}
    /\ response.pm25 = None
    /\ response.overallAqiCategory = "Hazardous"

=============================================================================
